---- MODULE Spec2Model ----
(***************************************************************************)
(* The CARB crawler and its SQLite graph store.                            *)
(*                                                                         *)
(*   src/src/db/schema.py      tables pages, edges, pages_fts and triggers *)
(*   src/src/db/database.py    Database.upsert_page, insert_edge, queries  *)
(*   src/src/crawler/crawler.py  crawl(): the BFS loop                     *)
(*   src/src/crawler/extractor.py extract_page(): url, guid, links         *)
(*                                                                         *)
(*   src/src/chatbot/llm.py    _expand_acronyms, _best_excerpt             *)
(*   src/src/chatbot/graph_queries.py, src/src/api/routes.py  chat path    *)
(*                                                                         *)
(* The specifications share the variables:                                 *)
(*   Spec        crawl runs against a small site (fetch outcomes vary)     *)
(*   SpecLive    Spec with the progress of the crawl loop                  *)
(*   SpecRerun   crawl runs against an unchanged, deterministic source     *)
(*   SpecStore   arbitrary calls of upsert_page / insert_edge              *)
(*   SpecSearch  Database.fts_search on any query, any backend outcome     *)
(*   SpecExcerpt _best_excerpt on bodies and snippets                      *)
(*   SpecExpand  _expand_acronyms on queries                               *)
(*   SpecChat    the /chat route on relationship and content queries       *)
(***************************************************************************)
EXTENDS Integers, Sequences, FiniteSets, TLC

VARIABLES
  pages,          \* table pages: sequence of rows, row i has id i (AUTOINCREMENT)
  edges,          \* table edges: set of rows [from_id, to_id, link_text]
  pages_fts,      \* FTS5 index: set of entries [rowid, title, content]
  pc,             \* position of crawl(): idle, loop, fetch, edge, done
  queue,          \* crawl.queue, a deque of items
  visited_guids,  \* crawl.visited_guids
  visited_urls,   \* crawl.visited_urls
  total,          \* crawl.total
  item,           \* the dequeued tuple (url, depth, parent_id, link_text)
  extracted,      \* the ExtractedPage of the item in flight
  page_id,        \* id returned by the upsert of the item in flight
  max_pages,      \* the page budget of the run (MAX_PAGES)
  max_depth,      \* the depth budget of the run (MAX_DEPTH)
  runs,           \* number of crawl() calls started on this store
  log,            \* what the current run did, oldest first
  site,           \* the site the browser renders
  last,           \* the last store call of SpecStore (op and arguments)
  call,           \* the read-side call in flight: its inputs, position, result
  source,         \* what every fetch of an address yields when the source is
                  \* unchanged and deterministic (AnySource: fetches vary)
  sleeps          \* number of asyncio.sleep(REQUEST_DELAY_SEC) calls of the run

vars == <<pages, edges, pages_fts, pc, queue, visited_guids, visited_urls,
          total, item, extracted, page_id, max_pages, max_depth, runs, log,
          site, last, call, source, sleeps>>

storeVars == <<pages, edges, pages_fts>>
config == <<max_pages, max_depth, site, source>>
crawlVars == <<pc, queue, visited_guids, visited_urls, total, item,
               extracted, page_id, max_pages, max_depth, runs, log, site,
               source,
              sleeps>>

----------------------------------------------------------------------------
(* Values *)

\* SQL NULL / Python None in an integer column (ids start at 1)
NULL == 0
\* Python None in a text column
None == "None"

\* Budgets of crawler.py and the scaled-down budgets used beside them
MAX_PAGES == 2000
MAX_DEPTH == 6
SmallPages == 2
SmallDepth == 1
\* crawl() calls per store
MaxRuns == 2
\* SpecStore: largest depth argument
MaxDepthArg == 1

----------------------------------------------------------------------------
(* Addresses.  An address is [form, key, alt]: form "browse" carries       *)
(* ?guid=key, form "document" ends in /Document/key, form "plain" has no   *)
(* guid; alt tells apart two spellings (other query parameters).           *)

Url(f, k, a) == [form |-> f, key |-> k, alt |-> a]

UrlR  == Url("browse", "R", 0)
UrlA  == Url("browse", "A", 0)
UrlB  == Url("document", "B", 0)
UrlB2 == Url("document", "B", 1)
UrlC  == Url("browse", "C", 0)

guid_from_url(url) ==
  IF url.form = "browse" THEN url.key
  ELSE IF url.form = "document" THEN url.key
  ELSE None

\* a guid string held in a set of address strings (it is no address)
GuidKey(guid) == Url("guid", guid, 0)

\* dedup_key = guid or url
DedupKey(url) ==
  IF guid_from_url(url) # None THEN GuidKey(guid_from_url(url)) ELSE url

----------------------------------------------------------------------------
(* The sites the browser renders.  Links(s, u) are the (href, text) pairs  *)
(* extract_page returns on site s for the page whose final address is u    *)
(* (all carry a guid, texts are non-empty); FinalUrls(s, u) are the values *)
(* page.url can have after goto(u).                                        *)
(*   "fixture": root -> A, A -> B, A -> C, C -> B, no redirects            *)
(*   "mesh":    root -> A, root -> C, A -> B, C -> B under its other       *)
(*              spelling; B may be redirected to its other spelling and C  *)
(*              to the root                                                *)
(* Anchors(s, u) are the <a href> elements of that page, the ones that    *)
(* extract_page drops included.                                            *)

Sites == {"fixture", "mesh"}

Link(u, t) == <<u, t>>

\* addresses that anchors of the pages point at and no page is crawled
\* from: one without a guid and without a Document segment, and the page
\* of the Title, one level above the start page
UrlHelp  == Url("other", "H", 0)
UrlTitle == Url("browse", "T", 0)

\* an <a href> of a page: the absolute address without its fragment, the
\* outcome of the tests of the href, the host and the path prefix ("in":
\* all pass), and the text of the anchor
Href(url, scope, text) == [url |-> url, scope |-> scope, text |-> text]

\* the anchors of the page at url, in document order
Anchors(s, url) ==
  IF s = "fixture"
  THEN IF url = UrlR
       THEN <<Href(UrlR, "fragment", "top"), Href(UrlTitle, "in", "Title 13"),
              Href(UrlA, "in", "a"), Href(UrlHelp, "in", "help"),
              Href(UrlA, "in", "a dup"), Href(UrlHelp, "off", "elsewhere")>>
       ELSE IF url = UrlA
       THEN <<Href(UrlB, "in", "b"), Href(UrlHelp, "in", "help"),
              Href(UrlC, "in", "c")>>
       ELSE IF url = UrlC THEN <<Href(UrlB, "in", "b again")>>
       ELSE <<>>
  ELSE IF url = UrlR
       THEN <<Href(UrlHelp, "in", "help"), Href(UrlA, "in", "a"),
              Href(UrlC, "in", "c")>>
       ELSE IF url = UrlA THEN <<Href(UrlB, "in", "b")>>
       ELSE IF url = UrlC
       THEN <<Href(UrlB2, "in", "b again"), Href(UrlHelp, "in", "help")>>
       ELSE <<>>

\* _extract_guid of extractor.py: ?guid=X, or the segment after Document
extract_guid(url) ==
  IF url.form = "browse" THEN url.key
  ELSE IF url.form = "document" THEN url.key
  ELSE None

\* re.match(r'^Title\s+\d+', link_text, re.IGNORECASE), on the texts in use
TitleLinkText(text) == text \in {"Title 13", "title 13"}

\* _clean_text(a.get_text()) or normalised: the address stands in for an
\* empty text
LinkTextOf(a) == IF a.text # "" THEN a.text ELSE a.url.key

\* the loop over soup.find_all("a") keeping every address, guid or not
RECURSIVE extract_links_any(_, _, _)
extract_links_any(anchors, i, seen_hrefs) ==
  IF i > Len(anchors) THEN <<>>
  ELSE LET a == anchors[i]
       IN IF a.scope # "in" \/ a.url \in seen_hrefs
          THEN extract_links_any(anchors, i + 1, seen_hrefs)
          ELSE IF TitleLinkText(LinkTextOf(a))
          THEN extract_links_any(anchors, i + 1, seen_hrefs \cup {a.url})
          ELSE <<Link(a.url, LinkTextOf(a))>>
               \o extract_links_any(anchors, i + 1, seen_hrefs \cup {a.url})

\* the loop over soup.find_all("a") of extract_page, from anchor i on
RECURSIVE extract_links(_, _, _)
extract_links(anchors, i, seen_hrefs) ==
  IF i > Len(anchors) THEN <<>>
  ELSE LET a == anchors[i]
       IN IF a.scope # "in" \/ a.url \in seen_hrefs
             \/ extract_guid(a.url) = None
          THEN extract_links(anchors, i + 1, seen_hrefs)
          ELSE IF TitleLinkText(LinkTextOf(a))
          THEN extract_links(anchors, i + 1, seen_hrefs \cup {a.url})
          ELSE <<Link(a.url, LinkTextOf(a))>>
               \o extract_links(anchors, i + 1, seen_hrefs \cup {a.url})

\* ExtractedPage.links of the page at url
Links(s, url) == extract_links(Anchors(s, url), 1, {})

FinalUrls(s, url) ==
  IF s = "fixture" THEN {url}
  ELSE IF url = UrlB THEN {UrlB, UrlB2}
  ELSE IF url = UrlC THEN {UrlC, UrlR}
  ELSE {url}

Title(url) == url.key

Contents == {"", "text"}

StartUrl == UrlR

----------------------------------------------------------------------------
(* The store *)

Ids == 1..Len(pages)

IdOfUrl(pgs, url) ==
  IF \E i \in 1..Len(pgs) : pgs[i].url = url
  THEN CHOOSE i \in 1..Len(pgs) : pgs[i].url = url
  ELSE NULL

\* parent_id = excluded.parent_id: the revisit's candidate replaces the parent
CoalesceExcluded(a, b) == b

\* COALESCE(pages.parent_id, excluded.parent_id)
Coalesce(a, b) == IF a # NULL THEN a ELSE b

CoalesceText(t) == IF t = None THEN "" ELSE t

FtsEntry(id, row) ==
  [rowid |-> id, title |-> CoalesceText(row.title),
   content |-> CoalesceText(row.content)]

NewRow(url, guid, title, content, depth, parent_id, status) ==
  [url |-> url, guid |-> guid, title |-> title, content |-> content,
   depth |-> depth, parent_id |-> parent_id, status |-> status]

\* ON CONFLICT(url) DO UPDATE SET ...
UpdatedRow(old, new) ==
  [url |-> old.url, guid |-> new.guid, title |-> new.title,
   content |-> new.content, depth |-> new.depth,
   parent_id |-> Coalesce(old.parent_id, new.parent_id),
   status |-> new.status]

\* the id upsert_page returns
UpsertId(pgs, url) ==
  IF IdOfUrl(pgs, url) # NULL THEN IdOfUrl(pgs, url) ELSE Len(pgs) + 1

\* a plain INSERT: every call adds a row, with a new id
UpsertPagesInsert(pgs, new) == Append(pgs, new)

\* the pages table after upsert_page
UpsertPages(pgs, new) ==
  IF IdOfUrl(pgs, new.url) # NULL
  THEN [pgs EXCEPT ![IdOfUrl(pgs, new.url)] = UpdatedRow(@, new)]
  ELSE Append(pgs, new)

\* pages_au without its 'delete' row: the old version stays indexed
UpsertFtsNoDelete(fts, pgs, new) ==
  LET id == UpsertId(pgs, new.url)
      after == UpsertPages(pgs, new)
  IN fts \cup {FtsEntry(id, after[id])}

\* triggers pages_ai and pages_au
UpsertFts(fts, pgs, new) ==
  LET id == UpsertId(pgs, new.url)
      after == UpsertPages(pgs, new)
  IN IF IdOfUrl(pgs, new.url) # NULL
     THEN (fts \ {FtsEntry(id, pgs[id])}) \cup {FtsEntry(id, after[id])}
     ELSE fts \cup {FtsEntry(id, after[id])}

\* REFERENCES pages(id) with PRAGMA foreign_keys=ON
ParentExists(pgs, new) ==
  LET after == UpsertPages(pgs, new)
      id == UpsertId(pgs, new.url)
  IN after[id].parent_id = NULL \/ after[id].parent_id \in 1..Len(after)

upsert_page(new) ==
  /\ ParentExists(pages, new)
  /\ pages' = UpsertPages(pages, new)
  /\ pages_fts' = UpsertFts(pages_fts, pages, new)

\* a plain INSERT into a table without the primary key
InsertEdgeRowsNoKey(es, from_id, to_id, link_text) ==
  es \cup {[from_id |-> from_id, to_id |-> to_id, link_text |-> link_text]}

\* INSERT OR IGNORE INTO edges, PRIMARY KEY (from_id, to_id)
InsertEdgeRows(es, from_id, to_id, link_text) ==
  IF \E e \in es : e.from_id = from_id /\ e.to_id = to_id
  THEN es
  ELSE es \cup {[from_id |-> from_id, to_id |-> to_id, link_text |-> link_text]}

\* the two ends of the edge swapped in the INSERT
insert_edge_reversed(from_id, to_id, link_text) ==
  edges' = InsertEdgeRows(edges, to_id, from_id, link_text)

\* Database.insert_edge
insert_edge(from_id, to_id, link_text) ==
  edges' = InsertEdgeRows(edges, from_id, to_id, link_text)

----------------------------------------------------------------------------
(* Queries *)

\* ORDER BY title: NULL first, then the titles in byte order
TitleRank(title) ==
  IF title = None THEN 0
  ELSE IF title = "" THEN 1
  ELSE IF title = "A" THEN 2
  ELSE IF title = "B" THEN 3
  ELSE IF title = "C" THEN 4
  ELSE IF title = "R" THEN 5
  ELSE 6

RECURSIVE OrderByTitle(_, _)
\* the ids of S as a sequence ordered by title (equal titles in id order)
OrderByTitle(pgs, S) ==
  IF S = {} THEN <<>>
  ELSE LET first == CHOOSE i \in S : \A j \in S :
                      \/ TitleRank(pgs[i].title) < TitleRank(pgs[j].title)
                      \/ /\ TitleRank(pgs[i].title) = TitleRank(pgs[j].title)
                         /\ i <= j
       IN <<first>> \o OrderByTitle(pgs, S \ {first})

\* SELECT * FROM pages WHERE parent_id = ? ORDER BY title (ids of the rows)
get_children(pgs, id) ==
  OrderByTitle(pgs, {c \in 1..Len(pgs) : pgs[c].parent_id = id})

RECURSIVE PathRows(_, _, _)
\* the rows the recursive CTE of get_path_to_root produces in its first n
\* recursion steps, the row of id first (UNION ALL: nothing stops a cycle)
PathRows(pgs, id, n) ==
  IF id \notin 1..Len(pgs) THEN <<>>
  ELSE IF n = 0 \/ pgs[id].parent_id = NULL THEN <<id>>
  ELSE <<id>> \o PathRows(pgs, pgs[id].parent_id, n - 1)

\* the CTE runs out of rows: the chain from id reaches a row without parent
\* (a chain over Len(pgs) rows that has not ended by then never ends)
PathEnds(pgs, id) ==
  LET rows == PathRows(pgs, id, Len(pgs))
  IN rows = <<>> \/ pgs[rows[Len(rows)]].parent_id = NULL

\* what a call of get_path_to_root does: it returns rows, or the query
\* never completes; no bound, no exception of its own
PathOutcome(pgs, id) == IF PathEnds(pgs, id) THEN "rows" ELSE "diverges"

----------------------------------------------------------------------------
(* crawl() *)

Item(url, depth, parent_id, link_text) ==
  [url |-> url, depth |-> depth, parent_id |-> parent_id,
   link_text |-> link_text]

NoItem == Item(StartUrl, 0, NULL, "")

ExtractedPage(url, content, links) ==
  [url |-> url, guid |-> guid_from_url(url), title |-> Title(url),
   content |-> content, links |-> links]

NoPage == ExtractedPage(StartUrl, "", <<>>)

\* no read-side call has been made
NoCall == [op |-> "none"]

\* the outcomes of the fetches are not fixed
AnySource == [kind |-> "any"]

\* the store and the crawl before anything has run
InitBase ==
  /\ pages = <<>>
  /\ edges = {}
  /\ pages_fts = {}
  /\ pc = "idle"
  /\ queue = <<>>
  /\ visited_guids = {}
  /\ visited_urls = {}
  /\ total = 0
  /\ item = NoItem
  /\ extracted = NoPage
  /\ page_id = NULL
  /\ max_pages \in {SmallPages, MAX_PAGES}
  /\ max_depth \in {SmallDepth, MAX_DEPTH}
  /\ runs = 0
  /\ log = <<>>
  /\ site \in Sites
  /\ last = [op |-> "none", id |-> NULL, arg |-> NULL, text |-> ""]
  /\ sleeps = 0

Init ==
  /\ InitBase
  /\ call = NoCall
  /\ source = AnySource

\* a run that keeps the visited sets of the run before it
StartRunKeepVisited ==
  /\ pc \in {"idle", "done"}
  /\ runs < MaxRuns
  /\ runs' = runs + 1
  /\ queue' = <<Item(StartUrl, 0, NULL, "")>>
  /\ total' = 0
  /\ log' = <<>>
  /\ pc' = "loop"
  /\ sleeps' = 0
  /\ UNCHANGED <<storeVars, visited_guids, visited_urls, item, extracted,
                 page_id, config, last, call>>

\* crawl(start_url, db) is called on the store as it is
StartRun ==
  /\ pc \in {"idle", "done"}
  /\ runs < MaxRuns
  /\ runs' = runs + 1
  /\ queue' = <<Item(StartUrl, 0, NULL, "")>>
  /\ visited_guids' = {}
  /\ visited_urls' = {}
  /\ total' = 0
  /\ log' = <<>>
  /\ pc' = "loop"
  /\ sleeps' = 0
  /\ UNCHANGED <<storeVars, item, extracted, page_id, config, last, call>>

LoopRuns == queue # <<>> /\ total < max_pages

\* no deduplication: every item of the frontier is fetched
SkippedNever(url) == FALSE

\* the address test alone, without the test of the dedup key
SkippedByUrl(url) == url \in visited_urls

Skipped(url) == DedupKey(url) \in visited_guids \/ url \in visited_urls

\* a skip that goes through the delay at the end of the loop body
DequeueSkipSleeps ==
  /\ pc = "loop"
  /\ LoopRuns
  /\ Skipped(Head(queue).url)
  /\ queue' = Tail(queue)
  /\ sleeps' = sleeps + 1
  /\ UNCHANGED <<storeVars, pc, visited_guids, visited_urls, total, item,
                 extracted, page_id, runs, log, config, last, call>>

\* popleft, then `continue` on a visited dedup key or address
DequeueSkip ==
  /\ pc = "loop"
  /\ LoopRuns
  /\ Skipped(Head(queue).url)
  /\ queue' = Tail(queue)
  /\ UNCHANGED <<storeVars, pc, visited_guids, visited_urls, total, item,
                 extracted, page_id, runs, log, config, last, call,
                 sleeps>>

\* pop() in place of popleft(): the newest item of the frontier first
DequeueLifo ==
  /\ pc = "loop"
  /\ LoopRuns
  /\ ~Skipped(queue[Len(queue)].url)
  /\ queue' = SubSeq(queue, 1, Len(queue) - 1)
  /\ item' = queue[Len(queue)]
  /\ visited_guids' = visited_guids \cup {DedupKey(queue[Len(queue)].url)}
  /\ visited_urls' = visited_urls \cup {queue[Len(queue)].url}
  /\ pc' = "fetch"
  /\ UNCHANGED <<storeVars, total, extracted, page_id, runs, log, config,
                 last, call,
                 sleeps>>

\* popleft, mark visited, go on to fetch_page
Dequeue ==
  /\ pc = "loop"
  /\ LoopRuns
  /\ ~Skipped(Head(queue).url)
  /\ queue' = Tail(queue)
  /\ item' = Head(queue)
  /\ visited_guids' = visited_guids \cup {DedupKey(Head(queue).url)}
  /\ visited_urls' = visited_urls \cup {Head(queue).url}
  /\ pc' = "fetch"
  /\ UNCHANGED <<storeVars, total, extracted, page_id, runs, log, config,
                 last, call,
                 sleeps>>

\* time.time() - start_time > CRAWL_TIMEOUT_SEC at the head of the loop
Timeout ==
  /\ pc = "loop"
  /\ LoopRuns
  /\ pc' = "done"
  /\ log' = Append(log, [ev |-> "timeout", url |-> StartUrl, final |-> StartUrl])
  /\ UNCHANGED <<storeVars, queue, visited_guids, visited_urls, total, item,
                 extracted, page_id, runs, config, last, call,
                 sleeps>>

\* a `break` that does not look at the while condition
FinishEarly ==
  /\ pc = "loop"
  /\ pc' = "done"
  /\ UNCHANGED <<storeVars, queue, visited_guids, visited_urls, total, item,
                 extracted, page_id, runs, log, config, last, call,
                 sleeps>>

\* the while condition is false
Finish ==
  /\ pc = "loop"
  /\ ~LoopRuns
  /\ pc' = "done"
  /\ UNCHANGED <<storeVars, queue, visited_guids, visited_urls, total, item,
                 extracted, page_id, runs, log, config, last, call,
                 sleeps>>

\* the except branch without its `continue`: the failure ends the run
FetchFailFatal ==
  /\ pc = "fetch"
  /\ upsert_page(NewRow(item.url, guid_from_url(item.url), None, "",
                        item.depth, item.parent_id, "error"))
  /\ log' = Append(log, [ev |-> "fail", url |-> item.url, final |-> item.url])
  /\ pc' = "done"
  /\ sleeps' = sleeps + 1
  /\ UNCHANGED <<edges, queue, visited_guids, visited_urls, total, item,
                 extracted, page_id, runs, config, last, call>>

\* fetch_page or extract_page raises: the except branch, with its delay
FetchFail ==
  /\ pc = "fetch"
  /\ upsert_page(NewRow(item.url, guid_from_url(item.url), None, "",
                        item.depth, item.parent_id, "error"))
  /\ log' = Append(log, [ev |-> "fail", url |-> item.url, final |-> item.url])
  /\ pc' = "loop"
  /\ sleeps' = sleeps + 1
  /\ UNCHANGED <<edges, queue, visited_guids, visited_urls, total, item,
                 extracted, page_id, runs, config, last, call>>

\* the default of upsert_page's status parameter, whatever the body
StatusOfDefault(content) == "ok"

\* status = "ok" if extracted.content else "empty"
StatusOf(content) == IF content # "" THEN "ok" ELSE "empty"

\* fetch_page and extract_page succeed: upsert, total += 1
FetchOk ==
  /\ pc = "fetch"
  /\ \E final \in FinalUrls(site, item.url), content \in Contents :
       LET ex == ExtractedPage(final, content, Links(site, final))
           row == NewRow(ex.url, ex.guid, ex.title, ex.content, item.depth,
                         item.parent_id, StatusOf(ex.content))
       IN /\ extracted' = ex
          /\ upsert_page(row)
          /\ page_id' = UpsertId(pages, ex.url)
          /\ log' = Append(log, [ev |-> "ok", url |-> item.url, final |-> final])
  /\ total' = total + 1
  /\ pc' = "edge"
  /\ UNCHANGED <<edges, queue, visited_guids, visited_urls, item, runs,
                 config, last, call,
                 sleeps>>

RECURSIVE Enqueued(_, _, _, _)
\* the items the for loop over extracted.links appends, in order
Enqueued(links, depth, parent, i) ==
  IF i > Len(links) THEN <<>>
  ELSE LET child_url == links[i][1]
           rest == Enqueued(links, depth, parent, i + 1)
       IN IF ~Skipped(child_url)
          THEN <<Item(child_url, depth + 1, parent, links[i][2])>> \o rest
          ELSE rest

\* the loop over extracted.links without its `if depth < MAX_DEPTH`
RecordEdgeAnyDepth ==
  /\ pc = "edge"
  /\ IF item.parent_id # NULL /\ item.link_text # ""
     THEN insert_edge(item.parent_id, page_id, item.link_text)
     ELSE edges' = edges
  /\ queue' = queue \o Enqueued(extracted.links, item.depth, page_id, 1)
  /\ pc' = "loop"
  /\ sleeps' = sleeps + 1
  /\ UNCHANGED <<pages, pages_fts, visited_guids, visited_urls, total, item,
                 extracted, page_id, runs, log, config, last, call>>

\* insert_edge for the parent, the children are enqueued, then the delay
RecordEdge ==
  /\ pc = "edge"
  /\ IF item.parent_id # NULL /\ item.link_text # ""
     THEN insert_edge(item.parent_id, page_id, item.link_text)
     ELSE edges' = edges
  /\ queue' = IF item.depth < max_depth
              THEN queue \o Enqueued(extracted.links, item.depth, page_id, 1)
              ELSE queue
  /\ pc' = "loop"
  /\ sleeps' = sleeps + 1
  /\ UNCHANGED <<pages, pages_fts, visited_guids, visited_urls, total, item,
                 extracted, page_id, runs, log, config, last, call>>

\* the task is cancelled at an await: only the finally block runs
Cancel ==
  /\ pc \in {"fetch", "edge"}
  /\ pc' = "done"
  /\ log' = Append(log, [ev |-> "cancel", url |-> item.url, final |-> item.url])
  /\ UNCHANGED <<storeVars, queue, visited_guids, visited_urls, total, item,
                 extracted, page_id, runs, config, last, call,
                 sleeps>>

Next ==
  \/ StartRun
  \/ DequeueSkip
  \/ Dequeue
  \/ Timeout
  \/ Finish
  \/ FetchFail
  \/ FetchOk
  \/ RecordEdge
  \/ Cancel

Spec == Init /\ [][Next]_vars

\* the steps crawl() takes by itself: every await of the loop returns or
\* raises (fetch_page has timeouts), and the event loop resumes the task
CrawlStep ==
  \/ DequeueSkip
  \/ Dequeue
  \/ Finish
  \/ FetchFail
  \/ FetchOk
  \/ RecordEdge

\* the runs whose progress is checked take the depth budget of crawler.py
InitLive ==
  /\ Init
  /\ max_depth = MAX_DEPTH

\* crawl() with the progress of a started run
SpecLive == InitLive /\ [][Next]_vars /\ WF_vars(CrawlStep)

----------------------------------------------------------------------------
(* SpecStore: a client calls the two writes of Database with any arguments *)

StoreUrls == {UrlR, UrlA}
StoreIds == 1..Cardinality(StoreUrls)
LinkTexts == {"x", "y"}

\* (title, content, status) as crawl() passes them
Payloads ==
  { [title |-> None, content |-> "", status |-> "error"],
    [title |-> "T", content |-> "text", status |-> "ok"] }

\* await db.upsert_page(...): commits, or raises IntegrityError (the
\* parent is no page) and leaves the tables as they were
CallUpsertPage ==
  \E url \in StoreUrls, p \in Payloads, depth \in 0..MaxDepthArg,
     parent_id \in {NULL} \cup StoreIds :
    LET new == NewRow(url, guid_from_url(url), p.title, p.content, depth,
                      parent_id, p.status)
    IN /\ IF ParentExists(pages, new)
          THEN upsert_page(new)
          ELSE UNCHANGED <<pages, pages_fts>>
       /\ last' = [op |-> "upsert_page", id |-> UpsertId(pages, url),
                   arg |-> parent_id, text |-> ""]
       /\ UNCHANGED <<edges, crawlVars, call>>

\* await db.insert_edge(...) between two pages: commits, or raises
\* IntegrityError when an end is no page
CallInsertEdge ==
  \E from_id \in StoreIds, to_id \in StoreIds, link_text \in LinkTexts :
    /\ from_id # to_id
    /\ IF from_id \in Ids /\ to_id \in Ids
       THEN insert_edge(from_id, to_id, link_text)
       ELSE UNCHANGED edges
    /\ last' = [op |-> "insert_edge", id |-> from_id, arg |-> to_id,
                text |-> link_text]
    /\ UNCHANGED <<pages, pages_fts, crawlVars, call>>

NextStore == CallUpsertPage \/ CallInsertEdge

InitStore ==
  /\ Init
  /\ max_pages = MAX_PAGES
  /\ max_depth = MAX_DEPTH
  /\ site = "fixture"

SpecStore == InitStore /\ [][NextStore]_vars

\* the read side is called on an idle process
InitRead ==
  /\ InitBase
  /\ source = AnySource
  /\ max_pages = MAX_PAGES
  /\ max_depth = MAX_DEPTH
  /\ site = "fixture"

----------------------------------------------------------------------------
(* Properties *)

PairRows(es, f, t) == {e \in es : e.from_id = f /\ e.to_id = t}

Upserts == {i \in 1..Len(log) : log[i].ev \in {"ok", "fail"}}

RootId == IdOfUrl(pages, StartUrl)

\* C1: a node that has a parent keeps that parent through every later
\* store call, whatever candidate parent an upsert of it supplies
C1_ParentWriteOnce ==
  [][\A id \in Ids :
       pages[id].parent_id # NULL =>
         pages'[id].parent_id = pages[id].parent_id]_vars

\* the last call upserted an existing node, which has parent P1, with a
\* candidate parent P2 that is another page
C1_Witness ==
  /\ last.op = "upsert_page"
  /\ last.id \in Ids
  /\ last.arg \in Ids
  /\ pages[last.id].parent_id # NULL
  /\ pages[last.id].parent_id # last.arg

\* C2: the stored depth of an existing node is never changed
C2_DepthWriteOnce ==
  [][\A id \in Ids : pages'[id].depth = pages[id].depth]_vars

\* C3: at most one node per canonical address and at most one node per
\* non-null identity key
C3_NoDuplicateDocuments ==
  \A i \in Ids, j \in Ids :
    i # j =>
      /\ pages[i].url # pages[j].url
      /\ pages[i].guid # None => pages[i].guid # pages[j].guid

\* C4: the parent references have no cycle and the traversal root has no
\* parent
C4_Forest ==
  /\ \A id \in Ids : PathEnds(pages, id)
  /\ RootId # NULL => pages[RootId].parent_id = NULL

\* C5: from every node the chain to the root ends, and the depth strictly
\* decreases at every parent step
C5_TreeAcyclicity ==
  \A id \in Ids :
    /\ PathOutcome(pages, id) = "rows"
    /\ pages[id].parent_id # NULL =>
         pages[pages[id].parent_id].depth < pages[id].depth

\* C6: get_path_to_root ends on every store, with rows or, on a chain
\* that does not reach a parentless node, with GraphIntegrityError
C6_PathBounded ==
  \A id \in Ids : PathOutcome(pages, id) \in {"rows", "GraphIntegrityError"}

\* C7: a pair has at most one edge row, a row once inserted stays as it is
\* (first link text wins), and after insert_edge for two pages the pair has
\* exactly one row
C7_EdgeIdempotence ==
  [][\A f \in StoreIds, t \in StoreIds :
       /\ Cardinality(PairRows(edges', f, t)) <= 1
       /\ PairRows(edges, f, t) # {} =>
            PairRows(edges', f, t) = PairRows(edges, f, t)
       /\ ( /\ last'.op = "insert_edge" /\ last'.id = f /\ last'.arg = t
            /\ f \in Ids /\ t \in Ids )
          => Cardinality(PairRows(edges', f, t)) = 1]_vars

\* the last call was insert_edge for a pair that has a row with another
\* link text
C7_Witness ==
  /\ last.op = "insert_edge"
  /\ \E e \in PairRows(edges, last.id, last.arg) : e.link_text # last.text

\* the fixture was crawled from an empty store to the end, every fetch
\* succeeded and no budget stopped the run
FixtureCrawled ==
  /\ site = "fixture"
  /\ runs = 1
  /\ pc = "done"
  /\ queue = <<>>
  /\ max_pages = MAX_PAGES
  /\ max_depth = MAX_DEPTH
  /\ \A i \in 1..Len(log) : log[i].ev = "ok"

\* C8: the crawl of the fixture ends with 4 nodes, 4 or 5 edges and A as
\* the only child of the root
C8_Fixture ==
  FixtureCrawled =>
    /\ Len(pages) = 4
    /\ Cardinality(edges) \in {4, 5}
    /\ get_children(pages, RootId) = <<IdOfUrl(pages, UrlA)>>

\* C9: a failed fetch leaves an error node with empty body for the
\* dequeued address, enqueues nothing, inserts no edge and the loop goes on
C9_FailureLocality ==
  [][(Len(log') = Len(log) + 1 /\ log'[Len(log')].ev = "fail") =>
       LET id == IdOfUrl(pages', item.url)
       IN /\ id # NULL
          /\ pages'[id].status = "error"
          /\ pages'[id].content = ""
          /\ queue' = queue
          /\ edges' = edges
          /\ pc' = "loop"]_vars

\* a fetch has just failed while the frontier holds further items
C9_Witness ==
  /\ pc = "loop"
  /\ Len(log) > 0
  /\ log[Len(log)].ev = "fail"
  /\ queue # <<>>
  /\ IdOfUrl(pages, log[Len(log)].url) # NULL

\* C10: a run upserts at most max_pages nodes, error nodes included
C10_NodeBudget == Cardinality(Upserts) <= max_pages

\* C11: links of a page at depth d are enqueued at depth d + 1 and only
\* when d < max_depth; every frontier item, the item in flight and every
\* committed node has depth at most max_depth
C11_DepthBudget ==
  [][/\ pc = "edge" /\ Len(queue') > Len(queue) =>
          /\ item.depth < max_depth
          /\ \A i \in (Len(queue) + 1)..Len(queue') :
               queue'[i].depth = item.depth + 1
     /\ \A i \in 1..Len(queue') : queue'[i].depth <= max_depth
     /\ item'.depth <= max_depth
     /\ \A id \in 1..Len(pages') : pages'[id].depth <= max_depth]_vars

\* a page at depth max_depth was committed with a link to an unvisited
\* document, and the frontier received nothing from it
C11_Witness ==
  /\ pc = "loop"
  /\ Len(log) > 0 /\ log[Len(log)].ev = "ok" /\ log[Len(log)].url = item.url
  /\ item.depth = max_depth
  /\ \E i \in 1..Len(extracted.links) : ~Skipped(extracted.links[i][1])
  /\ \A i \in 1..Len(queue) : queue[i].parent_id # page_id

Running == pc \in {"loop", "fetch", "edge"}

Cancelled(l) == Len(l) > 0 /\ l[Len(l)].ev = "cancel"

TimedOut(l) == Len(l) > 0 /\ l[Len(l)].ev = "timeout"

\* C12: a started run completes; unless it is cancelled it completes at the
\* head of the loop, with the frontier empty, the page budget reached or the
\* timeout elapsed, and it does complete there when the frontier is empty
\* or the budget is reached; nothing committed leaves the store
C12_Termination ==
  /\ Running ~> pc = "done"
  /\ [][/\ (Running /\ pc' = "done" /\ ~Cancelled(log')) =>
            /\ pc = "loop"
            /\ queue = <<>> \/ total >= max_pages \/ TimedOut(log')
            /\ storeVars' = storeVars
        /\ (pc = "loop" /\ ~LoopRuns) => pc' = "done"
        /\ Len(pages') >= Len(pages)
        /\ edges \subseteq edges']_vars

\* a run stopped by the page budget with items left in the frontier, its
\* pages in the store
C12_Witness ==
  /\ pc = "done"
  /\ queue # <<>>
  /\ total = max_pages
  /\ ~Cancelled(log) /\ ~TimedOut(log)
  /\ Len(pages) >= total

\* C13: an item goes on to fetch_page only if neither its dedup key nor its
\* address is in the visited sets, so no fetch of a run repeats the dedup
\* key or the address of an earlier fetch of that run
C13_DedupBeforeFetch ==
  [][(pc = "loop" /\ pc' = "fetch") =>
       /\ DedupKey(item'.url) \notin visited_guids
       /\ item'.url \notin visited_urls
       /\ \A i \in Upserts :
            /\ log[i].url # item'.url
            /\ DedupKey(log[i].url) # DedupKey(item'.url)]_vars

\* the head of the frontier is a second address of a document this run
\* has fetched: the pop that follows skips it
C13_Witness ==
  /\ pc = "loop"
  /\ LoopRuns
  /\ Head(queue).url \notin visited_urls
  /\ \E i \in Upserts : DedupKey(log[i].url) = DedupKey(Head(queue).url)

\* C14: the index holds, for every node id, exactly the entry made of the
\* node's current title and body ('' for NULL), and no other entry
C14_IndexLockstep ==
  /\ pages_fts = {FtsEntry(id, pages[id]) : id \in Ids}
  /\ \A id \in Ids : Cardinality({e \in pages_fts : e.rowid = id}) = 1

\* the last call revisited a node (it kept a parent the call did not pass)
\* and set its title to NULL and its body to '': the index holds the empty
\* entry for it
C14_Witness ==
  /\ last.op = "upsert_page"
  /\ last.id \in Ids
  /\ last.arg = NULL
  /\ pages[last.id].parent_id # NULL
  /\ pages[last.id].title = None
  /\ [rowid |-> last.id, title |-> "", content |-> ""] \in pages_fts

----------------------------------------------------------------------------
(* SpecSearch: Database.fts_search, database.py 225-253 *)

MaxQueryLen == 3

\* a query is the sequence of its tokens; "?" stands for punctuation
SearchTokens == {"What", "the", "ZEV", "bus", "PM", "?"}

Punctuation == {"?"}

\* str.lower(), and the folding of re.IGNORECASE, on the tokens in use
Lower(w) ==
  CASE w = "What" -> "what"
    [] w = "ZEV" -> "zev"
    [] w = "ZEVs" -> "zevs"
    [] w = "PM" -> "pm"
    [] w = "Act" -> "act"
    [] w = "ZEB" -> "zeb"
    [] w = "ZEBs" -> "zebs"
    [] w = "PHEV" -> "phev"
    [] w = "PHEVs" -> "phevs"
    [] w = "OBD" -> "obd"
    [] w = "NOx" -> "nox"
    [] w = "GHG" -> "ghg"
    [] w = "ICT" -> "ict"
    [] w = "ACT" -> "act"
    [] w = "HD" -> "hd"
    [] w = "LD" -> "ld"
    [] w = "MD" -> "md"
    [] w = "FTP" -> "ftp"
    [] w = "BHP" -> "bhp"
    [] w = "SOREL" -> "sorel"
    [] OTHER -> w

STOP ==
  {"what", "does", "do", "did", "is", "are", "was", "were", "the",
   "a", "an", "and", "or", "in", "on", "at", "to", "of", "for",
   "with", "by", "from", "that", "this", "it", "be", "have", "has",
   "say", "says", "about", "tell", "me", "us", "how", "why", "when",
   "where", "which", "who", "can", "carb"}

\* re.sub(r"[^\w\s]", " ", query), then split()
Cleaned(query) == SelectSeq(query, LAMBDA w : w \notin Punctuation)

RECURSIVE MapLower(_)
MapLower(ws) ==
  IF ws = <<>> THEN <<>> ELSE <<Lower(Head(ws))>> \o MapLower(Tail(ws))

\* the comprehension without its `len(w) > 2`
FilteredStopOnly(query) ==
  SelectSeq(MapLower(Cleaned(query)), LAMBDA w : w \notin STOP)

\* the comprehension over cleaned.lower().split()
Filtered(query) ==
  SelectSeq(MapLower(Cleaned(query)), LAMBDA w : w \notin STOP /\ Len(w) > 2)

\* words, with the fallback `if not words: words = cleaned.split()`
Words(query) ==
  IF Filtered(query) # <<>> THEN Filtered(query) ELSE Cleaned(query)

RECURSIVE or_query(_)
\* " OR ".join(words), token by token
or_query(words) ==
  IF Len(words) <= 1 THEN words
  ELSE <<Head(words), "OR">> \o or_query(Tail(words))

\* " ".join(words)
and_query(words) == words

\* what a backend query does: rows, no rows, or an exception
Outcomes == {"rows", "empty", "raise"}

Queries == UNION {[1..n -> SearchTokens] : n \in 0..MaxQueryLen}

FtsCall(query) ==
  [op |-> "fts_search", query |-> query, pc |-> "or", attempts |-> <<>>,
   results |-> "none"]

Attempt(kind, q, outcome) == [kind |-> kind, q |-> q, outcome |-> outcome]

\* results = await self._fts_raw(or_query, limit), inside the outer try
FtsTryOr ==
  /\ call.op = "fts_search" /\ call.pc = "or"
  /\ \E o \in Outcomes :
       call' = [call EXCEPT
         !.attempts = Append(@, Attempt("fts", or_query(Words(call.query)), o)),
         !.results = IF o = "rows" THEN "rows" ELSE @,
         !.pc = CASE o = "rows" -> "return"
                  [] o = "empty" -> "and"
                  [] o = "raise" -> "except"]
  /\ UNCHANGED <<storeVars, crawlVars, last>>

\* `if not results:` the conjunctive query, still inside the outer try
FtsTryAnd ==
  /\ call.op = "fts_search" /\ call.pc = "and"
  /\ \E o \in Outcomes :
       call' = [call EXCEPT
         !.attempts = Append(@, Attempt("fts", and_query(Words(call.query)), o)),
         !.results = IF o = "raise" THEN @ ELSE o,
         !.pc = IF o = "raise" THEN "except" ELSE "return"]
  /\ UNCHANGED <<storeVars, crawlVars, last>>

\* the outer except without its inner try: the exception leaves fts_search
FtsExceptAndRaises ==
  /\ call.op = "fts_search" /\ call.pc = "except"
  /\ \E o \in Outcomes :
       call' = [call EXCEPT
         !.attempts = Append(@, Attempt("fts", and_query(Words(call.query)), o)),
         !.results = IF o = "raise" THEN @ ELSE o,
         !.pc = IF o = "raise" THEN "raised" ELSE "return"]
  /\ UNCHANGED <<storeVars, crawlVars, last>>

\* except Exception: the conjunctive query inside the inner try
FtsExceptAnd ==
  /\ call.op = "fts_search" /\ call.pc = "except"
  /\ \E o \in Outcomes :
       call' = [call EXCEPT
         !.attempts = Append(@, Attempt("fts", and_query(Words(call.query)), o)),
         !.results = IF o = "raise" THEN @ ELSE o,
         !.pc = IF o = "raise" THEN "title" ELSE "return"]
  /\ UNCHANGED <<storeVars, crawlVars, last>>

\* the inner except: find_pages_by_title(query, limit), a LIKE on the raw query
FtsTitleSearch ==
  /\ call.op = "fts_search" /\ call.pc = "title"
  /\ \E o \in Outcomes \ {"raise"} :
       call' = [call EXCEPT
         !.attempts = Append(@, Attempt("title", call.query, o)),
         !.results = o,
         !.pc = "return"]
  /\ UNCHANGED <<storeVars, crawlVars, last>>

NextSearch == FtsTryOr \/ FtsTryAnd \/ FtsExceptAnd \/ FtsTitleSearch

InitSearch ==
  /\ InitRead
  /\ \E query \in Queries : call = FtsCall(query)

SpecSearch == InitSearch /\ [][NextSearch]_vars

\* C15: the disjunctive query is tried first; on zero rows, or on an
\* exception, the conjunctive query is tried; when the conjunctive query
\* raised after the disjunctive one raised (or raised twice after zero rows),
\* title search on the raw query follows and its result is returned; no
\* exception leaves fts_search
C15_FallbackChain ==
  LET a == call.attempts
      w == Words(call.query)
      n == Len(a)
  IN /\ call.pc \in {"or", "and", "except", "title", "return"}
     /\ call.pc # "or" => n >= 1
     /\ n >= 1 => a[1] = Attempt("fts", or_query(w), a[1].outcome)
     /\ (n >= 1 /\ a[1].outcome = "rows") =>
           n = 1 /\ call.pc = "return" /\ call.results = "rows"
     /\ (call.pc = "return" /\ a[1].outcome \in {"empty", "raise"}) =>
           n >= 2 /\ a[2] = Attempt("fts", and_query(w), a[2].outcome)
     /\ (call.pc = "return" /\ a[1].outcome = "raise"
           /\ a[2].outcome = "raise") =>
           n = 3 /\ a[3] = Attempt("title", call.query, call.results)
     /\ call.pc = "return" =>
           /\ a[n].outcome = call.results
           /\ call.results # "raise"
           /\ \A i \in 1..(n - 1) : a[i].outcome \in {"empty", "raise"}
           /\ \A i \in 2..(n - 1) :
                a[i].outcome = "raise" =>
                  \/ a[i + 1] = Attempt("title", call.query, call.results)
                  \/ /\ i = 2 /\ a[1].outcome = "empty"
                     /\ a[3] = Attempt("fts", and_query(w), a[3].outcome)

\* both full-text queries raised on a query with a content word, and the
\* rows of the title search were returned
C15_Witness ==
  /\ call.pc = "return"
  /\ Filtered(call.query) # <<>>
  /\ Len(call.attempts) = 3
  /\ call.attempts[1].outcome = "raise"
  /\ call.attempts[2].outcome = "raise"
  /\ call.attempts[3].kind = "title"
  /\ call.results = "rows"

----------------------------------------------------------------------------
(* SpecExcerpt: _best_excerpt(full, fts_snippet, window), llm.py 90-113 *)

\* the default of the parameter `window`
Window == 8000

\* min(800, ...): the boilerplate skipped when no anchor is found
BoilerplateSkip == 800

\* a segment counts when len(s.strip()) > 10; the anchor is cut to [:80]
MinAnchorLen == 10
MaxAnchorLen == 80

MaxSegments == 2

\* len(full)
BodyLens == {0, 7999, 8000, 8001, 8500, 20000}

\* a segment of the snippet (tags removed, split on "...", stripped): its
\* length, and where full.find() meets its first 80 characters (-1: nowhere)
SegLens == {10, 11, 120}
SegPositions == {-1, 0, 6001, 15000, 19000}
Segments == [len : SegLens, pos : SegPositions]

Snippets == UNION {[1..n -> Segments] : n \in 0..MaxSegments}

Min(a, b) == IF a <= b THEN a ELSE b
Max(a, b) == IF a >= b THEN a ELSE b

\* a segment found at pos lies inside the body
Occurs(full, snippet) ==
  \A i \in 1..Len(snippet) :
    snippet[i].pos >= 0 =>
      snippet[i].pos + Min(snippet[i].len, MaxAnchorLen) <= full

\* [s.strip() for s in anchor_text.split("...") if len(s.strip()) > 10]
LongSegments(snippet) ==
  SelectSeq(snippet, LAMBDA g : g.len > MinAnchorLen)

RECURSIVE MaxByLen(_)
\* max(segments, key=len): the first of the longest
MaxByLen(segs) ==
  IF Len(segs) = 1 THEN segs[1]
  ELSE LET m == MaxByLen(Tail(segs))
       IN IF segs[1].len >= m.len THEN segs[1] ELSE m

\* anchor = max(segments, key=len)[:80] if segments else ""
Anchor(snippet) ==
  IF LongSegments(snippet) # <<>>
  THEN LET g == MaxByLen(LongSegments(snippet))
       IN [len |-> Min(g.len, MaxAnchorLen), pos |-> g.pos]
  ELSE [len |-> 0, pos |-> 0]

\* pos = full.find(anchor) if len(anchor) > 10 else -1
AnchorPos(snippet) ==
  IF Anchor(snippet).len > MinAnchorLen THEN Anchor(snippet).pos ELSE -1

\* the window centred on the anchor
ExcerptStartCentred(pos, full, window) ==
  IF pos >= 0
  THEN Max(0, pos - window \div 2)
  ELSE Min(BoilerplateSkip, full - window)

\* start = max(0, pos - window * 3 // 4) if pos >= 0 else min(800, ...)
ExcerptStart(pos, full, window) ==
  IF pos >= 0
  THEN Max(0, pos - (window * 3) \div 4)
  ELSE Min(BoilerplateSkip, full - window)

\* full[a : b] as the interval of positions it holds
Slice(full, a, b) == [start |-> Min(a, full), stop |-> Max(Min(a, full), Min(b, full))]

\* the window starting at the anchor, without the backward bias
best_excerpt_at_anchor(full, snippet, window) ==
  IF full <= window
  THEN Slice(full, 0, full)
  ELSE LET start == IF AnchorPos(snippet) >= 0 THEN AnchorPos(snippet)
                    ELSE Min(BoilerplateSkip, full - window)
       IN Slice(full, start, start + window)

\* the excerpt as an interval of the body
best_excerpt(full, snippet, window) ==
  IF full <= window
  THEN Slice(full, 0, full)
  ELSE LET start == ExcerptStart(AnchorPos(snippet), full, window)
       IN Slice(full, start, start + window)

ExcerptCall(full, snippet) ==
  [op |-> "best_excerpt", full |-> full, snippet |-> snippet, pc |-> "call",
   excerpt |-> Slice(0, 0, 0)]

BestExcerpt ==
  /\ call.op = "best_excerpt" /\ call.pc = "call"
  /\ call' = [call EXCEPT
       !.excerpt = best_excerpt(call.full, call.snippet, Window),
       !.pc = "return"]
  /\ UNCHANGED <<storeVars, crawlVars, last>>

NextExcerpt == BestExcerpt

InitExcerpt ==
  /\ InitRead
  /\ \E full \in BodyLens, snippet \in Snippets :
       /\ Occurs(full, snippet)
       /\ call = ExcerptCall(full, snippet)

SpecExcerpt == InitExcerpt /\ [][NextExcerpt]_vars

ExcerptLen == call.excerpt.stop - call.excerpt.start

\* C16: a body longer than the window yields an excerpt of exactly the
\* window's length, wherever the anchor is found or not; a body no longer
\* than the window is returned whole
C16_ExcerptBounded ==
  call.pc = "return" =>
    /\ call.full > Window => ExcerptLen = Window
    /\ call.full <= Window => call.excerpt = [start |-> 0, stop |-> call.full]

\* C17: with a body longer than the window and the anchor first found at
\* pos, the excerpt starts at max(0, pos - window * 3 \div 4); a body of 20000
\* with pos = 15000 and window = 8000 gives body[9000, 17000)
C17_ExcerptPosition ==
  (call.pc = "return" /\ call.full > Window /\ AnchorPos(call.snippet) >= 0) =>
    LET pos == AnchorPos(call.snippet)
        from == IF pos - (Window * 3) \div 4 > 0
                THEN pos - (Window * 3) \div 4 ELSE 0
    IN /\ call.excerpt.start = from
       /\ (call.full = 20000 /\ pos = 15000 /\ Window = 8000) =>
            call.excerpt = [start |-> 9000, stop |-> 17000]

\* the excerpt of a 20000-character body whose anchor is found at 15000
C17_Witness ==
  /\ call.pc = "return"
  /\ call.full = 20000
  /\ AnchorPos(call.snippet) = 15000
  /\ call.excerpt = [start |-> 9000, stop |-> 17000]

----------------------------------------------------------------------------
(* SpecExpand: _expand_acronyms(query), llm.py 16-44 *)

\* _ACRONYMS in the order of the dict; an expansion is its words
ACRONYMS ==
  << [acronym |-> "ZEB", expansion |-> <<"zero-emission", "bus">>],
     [acronym |-> "ZEBs", expansion |-> <<"zero-emission", "buses">>],
     [acronym |-> "ZEV", expansion |-> <<"zero-emission", "vehicle">>],
     [acronym |-> "ZEVs", expansion |-> <<"zero-emission", "vehicles">>],
     [acronym |-> "PHEV",
      expansion |-> <<"plug-in", "hybrid", "electric", "vehicle">>],
     [acronym |-> "PHEVs",
      expansion |-> <<"plug-in", "hybrid", "electric", "vehicles">>],
     [acronym |-> "OBD", expansion |-> <<"on-board", "diagnostic">>],
     [acronym |-> "NOx", expansion |-> <<"oxides", "of", "nitrogen">>],
     [acronym |-> "PM", expansion |-> <<"particulate", "matter">>],
     [acronym |-> "GHG", expansion |-> <<"greenhouse", "gas">>],
     [acronym |-> "ICT", expansion |-> <<"innovative", "clean", "transit">>],
     [acronym |-> "ACT", expansion |-> <<"advanced", "clean", "trucks">>],
     [acronym |-> "HD", expansion |-> <<"heavy-duty">>],
     [acronym |-> "LD", expansion |-> <<"light-duty">>],
     [acronym |-> "MD", expansion |-> <<"medium-duty">>],
     [acronym |-> "FTP", expansion |-> <<"federal", "test", "procedure">>],
     [acronym |-> "BHP", expansion |-> <<"brake", "horsepower">>],
     [acronym |-> "SOREL",
      expansion |-> <<"solid", "oxide", "regenerative", "electrolysis">>] >>

\* the words of a query to expand
ExpandTokens == {"ZEV", "zev", "ZEVs", "pm", "Act", "bus"}

ExpandQueries == UNION {[1..n -> ExpandTokens] : n \in 0..MaxQueryLen}

\* rf"\b{acronym}\b" with re.IGNORECASE, on one word
Matches(w, acronym) == Lower(w) = Lower(acronym)

RECURSIVE Sub(_, _)
\* re.sub(pattern, f"{acronym} {expansion}", result, flags=re.IGNORECASE)
Sub(text, entry) ==
  IF text = <<>> THEN <<>>
  ELSE (IF Matches(Head(text), entry.acronym)
        THEN <<entry.acronym>> \o entry.expansion
        ELSE <<Head(text)>>) \o Sub(Tail(text), entry)

RECURSIVE ExpandFrom(_, _)
\* the for loop over _ACRONYMS.items(), from entry k on
ExpandFrom(result, k) ==
  IF k > Len(ACRONYMS) THEN result
  ELSE ExpandFrom(Sub(result, ACRONYMS[k]), k + 1)

expand_acronyms(query) == ExpandFrom(query, 1)

ExpandCall(query) ==
  [op |-> "expand_acronyms", query |-> query, pc |-> "call", result |-> <<>>]

ExpandAcronyms ==
  /\ call.op = "expand_acronyms" /\ call.pc = "call"
  /\ call' = [call EXCEPT !.result = expand_acronyms(call.query),
                          !.pc = "return"]
  /\ UNCHANGED <<storeVars, crawlVars, last>>

NextExpand == ExpandAcronyms

InitExpand ==
  /\ InitRead
  /\ \E query \in ExpandQueries : call = ExpandCall(query)

SpecExpand == InitExpand /\ [][NextExpand]_vars

\* the table entries a word matches as a whole word, whatever its case
EntriesOf(w) == {k \in 1..Len(ACRONYMS) : Matches(w, ACRONYMS[k].acronym)}

RECURSIVE Inserted(_)
\* the query with, after each word that matches a table acronym, that
\* acronym's expansion
Inserted(query) ==
  IF query = <<>> THEN <<>>
  ELSE LET w == Head(query)
       IN (IF EntriesOf(w) # {}
           THEN LET k == CHOOSE k \in EntriesOf(w) : TRUE
                IN <<w>> \o ACRONYMS[k].expansion
           ELSE <<w>>) \o Inserted(Tail(query))

\* C18: the expanded query is the original query, every word
\* unchanged and in order, with the expansion inserted right after each
\* whole-word match of a table acronym
C18_ExpansionAdditive ==
  call.pc = "return" => call.result = Inserted(call.query)

----------------------------------------------------------------------------
(* Single-level navigation, database.py 157-188 *)

\* SELECT p.* FROM pages p JOIN pages c ON c.parent_id = p.id WHERE c.id = ?
\* (the id of the row, NULL for None)
get_parent(pgs, id) ==
  IF /\ id \in 1..Len(pgs)
     /\ pgs[id].parent_id # NULL
     /\ pgs[id].parent_id \in 1..Len(pgs)
  THEN pgs[id].parent_id
  ELSE NULL

\* the comparison read as IS: two NULL parents compare equal
get_siblings_null_equal(pgs, id) ==
  IF id \notin 1..Len(pgs) THEN <<>>
  ELSE OrderByTitle(pgs, {r \in 1..Len(pgs) :
         pgs[r].parent_id = pgs[id].parent_id /\ r # id})

\* WHERE parent_id = (SELECT parent_id FROM pages WHERE id = ?) AND id != ?
\* ORDER BY title: `=` is never true of a NULL
get_siblings(pgs, id) ==
  IF id \notin 1..Len(pgs) \/ pgs[id].parent_id = NULL THEN <<>>
  ELSE OrderByTitle(pgs, {r \in 1..Len(pgs) :
         pgs[r].parent_id = pgs[id].parent_id /\ r # id})

Range(f) == {f[i] : i \in DOMAIN f}

\* C20: x is a child of p exactly when p is the parent of x; the siblings
\* of x are the other nodes with x's non-null parent, never x itself, and
\* none when x has no parent
C20_NavigationConsistent ==
  \A x \in Ids :
    /\ \A p \in Ids :
         x \in Range(get_children(pages, p)) <=> get_parent(pages, x) = p
    /\ x \notin Range(get_siblings(pages, x))
    /\ Range(get_siblings(pages, x)) =
         IF pages[x].parent_id = NULL THEN {}
         ELSE {r \in Ids \ {x} : pages[r].parent_id = pages[x].parent_id}
    /\ Len(get_siblings(pages, x)) = Cardinality(Range(get_siblings(pages, x)))

\* two nodes without a parent: neither is a sibling of the other
C20_Witness ==
  /\ Len(pages) = 2
  /\ pages[1].parent_id = NULL
  /\ pages[2].parent_id = NULL
  /\ get_siblings(pages, 1) = <<>>
  /\ get_siblings(pages, 2) = <<>>

----------------------------------------------------------------------------
(* SpecChat: POST /api/chat, routes.py 55-95, classifier.py and            *)
(* graph_queries.py, on a store that holds a root and its children         *)

\* children[:20], siblings[:15], outgoing[:15], find_pages_by_title(.., 3)
ChildrenShown == 20
SiblingsShown == 15
LinksShown == 15
TitleMatches == 3

\* the largest number of children of the root in the store
MaxChildren == 21

RootTitles == {"R", "Parent R"}

\* the titles the children carry, in the order of their ids
ChildTitleCycle == <<"C", "A", None, "B">>

ChildTitle(i) == ChildTitleCycle[((i - 1) % Len(ChildTitleCycle)) + 1]

\* the address of the i-th child (one spelling per child)
UrlChild(i) == Url("browse", "K", i)

ChildRow(i) ==
  IF ChildTitle(i) = None
  THEN NewRow(UrlChild(i), "K", None, "", 1, 1, "error")
  ELSE NewRow(UrlChild(i), "K", ChildTitle(i), "text", 1, 1, "ok")

\* the pages of a crawled root with n children, and the edges to them
ChatPages(title, n) ==
  <<NewRow(UrlR, "R", title, "text", 0, NULL, "ok")>>
    \o [i \in 1..n |-> ChildRow(i)]

ChatEdges(n) ==
  {[from_id |-> 1, to_id |-> i + 1, link_text |-> "x"] : i \in 1..n}

\* a query: the phrase the classifier and the branch tests look at, and
\* the subject _extract_subject pulls out of it
Forms ==
  {"parent of", "children of", "siblings of", "path to", "links from",
   "related to", "tell me about"}

Subjects == {"R", "Parent R", "Z"}

ChatQueries == [form : Forms, subject : Subjects]

\* classify_query: one of _RELATIONSHIP_PATTERNS is found
classify_query(query) ==
  IF query.form \in {"parent of", "children of", "siblings of", "path to",
                     "links from", "related to"}
  THEN "relationship" ELSE "content"

extract_subject(query) == query.subject

\* the words of query.lower() that the branch tests of answer_relationship
\* look for
Keywords(query) ==
  (CASE query.form = "parent of" -> {"parent"}
     [] query.form = "children of" -> {"children"}
     [] query.form = "siblings of" -> {"siblings"}
     [] query.form = "path to" -> {"path"}
     [] query.form = "links from" -> {"links"}
     [] OTHER -> {})
  \cup (IF query.subject = "Parent R" THEN {"parent"} ELSE {})

\* the if / elif chain over re.search(..., q)
Kind(query) ==
  IF "parent" \in Keywords(query) THEN "parent"
  ELSE IF "children" \in Keywords(query) THEN "children"
  ELSE IF "siblings" \in Keywords(query) THEN "siblings"
  ELSE IF "path" \in Keywords(query) THEN "path"
  ELSE IF "links" \in Keywords(query) THEN "links"
  ELSE "generic"

\* title LIKE '%keyword%' on the titles in use
TitleLike(title, keyword) ==
  CASE keyword = "R" -> title \in {"R", "Parent R"}
    [] keyword = "Parent R" -> title = "Parent R"
    [] OTHER -> FALSE

RECURSIVE AscendingSeq(_)
\* the numbers of S in ascending order
AscendingSeq(S) ==
  IF S = {} THEN <<>>
  ELSE LET m == CHOOSE i \in S : \A j \in S : i <= j
       IN <<m>> \o AscendingSeq(S \ {m})

\* the positions S of rows ordered by the depth of their pages (equal
\* depths in the order the CTE produced them)
OrderByDepth(pgs, rows) ==
  LET RECURSIVE Pick(_)
      Pick(S) ==
        IF S = {} THEN <<>>
        ELSE LET k == CHOOSE i \in S : \A j \in S :
                        \/ pgs[rows[i]].depth < pgs[rows[j]].depth
                        \/ /\ pgs[rows[i]].depth = pgs[rows[j]].depth
                           /\ i <= j
             IN <<rows[k]>> \o Pick(S \ {k})
  IN Pick(DOMAIN rows)

\* SELECT * FROM path ORDER BY depth ASC, when the CTE runs out of rows
get_path_to_root(pgs, id) == OrderByDepth(pgs, PathRows(pgs, id, Len(pgs)))

\* SELECT ... FROM edges e JOIN pages p ON p.id = e.to_id
\* WHERE e.from_id = ? ORDER BY p.title (the ids of the target pages)
get_outgoing_links(pgs, es, id) ==
  OrderByTitle(pgs, {e.to_id : e \in {d \in es : d.from_id = id}})

\* p.get("title") or "Untitled"
TitleOrUntitled(title) ==
  IF title = None \/ title = "" THEN "Untitled" ELSE title

\* the titles of the pages ids, as the answer prints them
Titles(pgs, ids) == [i \in DOMAIN ids |-> TitleOrUntitled(pgs[ids[i]].title)]

\* link.get("link_text") or link.get("title") or link.get("url")
Labels(pgs, es, from, ids) ==
  [i \in DOMAIN ids |->
     LET e == CHOOSE d \in es : d.from_id = from /\ d.to_id = ids[i]
     IN IF e.link_text # "" THEN e.link_text
        ELSE IF pgs[ids[i]].title \notin {None, ""} THEN pgs[ids[i]].title
        ELSE pgs[ids[i]].url]

Answer(kind, of, listed, count) ==
  [kind |-> kind, of |-> of, listed |-> listed, count |-> count]

\* answer_relationship returned None
NoAnswer == Answer("none", NULL, <<>>, 0)

\* for c in children: with no slice
ShownAll(seq, limit) == seq

\* seq[:limit]
Shown(seq, limit) == SubSeq(seq, 1, Min(Len(seq), limit))

\* SELECT * FROM pages WHERE title LIKE ? LIMIT ? (ids, in rowid order)
find_pages_by_title(pgs, keyword, limit) ==
  SubSeq(AscendingSeq({i \in 1..Len(pgs) : TitleLike(pgs[i].title, keyword)}),
         1, Min(Cardinality({i \in 1..Len(pgs) :
                               TitleLike(pgs[i].title, keyword)}), limit))

\* answer_relationship(query, db): what the lines of the answer hold
answer_relationship(pgs, es, query) ==
  LET found == find_pages_by_title(pgs, extract_subject(query), TitleMatches)
  IN IF found = <<>> THEN NoAnswer
     ELSE LET pid == found[1]
              kind == Kind(query)
          IN CASE kind = "parent" ->
                    LET parent == get_parent(pgs, pid)
                    IN Answer(kind, pid,
                              IF parent # NULL THEN Titles(pgs, <<parent>>)
                              ELSE <<>>,
                              IF parent # NULL THEN 1 ELSE 0)
               [] kind = "children" ->
                    LET children == get_children(pgs, pid)
                    IN Answer(kind, pid,
                              Titles(pgs, Shown(children, ChildrenShown)),
                              Len(children))
               [] kind = "siblings" ->
                    LET siblings == get_siblings(pgs, pid)
                    IN Answer(kind, pid,
                              Titles(pgs, Shown(siblings, SiblingsShown)),
                              Len(siblings))
               [] kind = "path" ->
                    LET path == get_path_to_root(pgs, pid)
                    IN Answer(kind, pid, Titles(pgs, path), Len(path))
               [] kind = "links" ->
                    LET outgoing == get_outgoing_links(pgs, es, pid)
                    IN Answer(kind, pid,
                              Labels(pgs, es, pid, Shown(outgoing, LinksShown)),
                              Len(outgoing))
               [] OTHER ->
                    Answer(kind, pid, <<>>, Len(get_children(pgs, pid)))

ChatCall(query) ==
  [op |-> "chat", query |-> query, pc |-> "chat", answer |-> NoAnswer,
   llm |-> FALSE]

\* query_type == "relationship" and answer is not None: the answer is
\* streamed as it is
ChatRelationship ==
  /\ call.op = "chat" /\ call.pc = "chat"
  /\ classify_query(call.query) = "relationship"
  /\ answer_relationship(pages, edges, call.query) # NoAnswer
  /\ call' = [call EXCEPT
       !.answer = answer_relationship(pages, edges, call.query),
       !.pc = "done"]
  /\ UNCHANGED <<storeVars, crawlVars, last>>

\* answer is None: fall through to the content path
ChatNoDocument ==
  /\ call.op = "chat" /\ call.pc = "chat"
  /\ classify_query(call.query) = "relationship"
  /\ answer_relationship(pages, edges, call.query) = NoAnswer
  /\ call' = [call EXCEPT !.pc = "content"]
  /\ UNCHANGED <<storeVars, crawlVars, last>>

\* query_type == "content"
ChatContent ==
  /\ call.op = "chat" /\ call.pc = "chat"
  /\ classify_query(call.query) = "content"
  /\ call' = [call EXCEPT !.pc = "content"]
  /\ UNCHANGED <<storeVars, crawlVars, last>>

\* content_stream(): answer_content_stream calls the LLM
ContentStream ==
  /\ call.op = "chat" /\ call.pc = "content"
  /\ call' = [call EXCEPT !.llm = TRUE, !.answer = Answer("content", NULL, <<>>, 0),
                          !.pc = "done"]
  /\ UNCHANGED <<storeVars, crawlVars, last>>

NextChat == ChatRelationship \/ ChatNoDocument \/ ChatContent \/ ContentStream

InitChat ==
  /\ \E title \in RootTitles, n \in 0..MaxChildren :
       /\ pages = ChatPages(title, n)
       /\ edges = ChatEdges(n)
       /\ pages_fts = {FtsEntry(id, ChatPages(title, n)[id]) : id \in 1..(n + 1)}
  /\ pc = "done"
  /\ queue = <<>>
  /\ visited_guids = {}
  /\ visited_urls = {}
  /\ total = 0
  /\ item = NoItem
  /\ extracted = NoPage
  /\ page_id = NULL
  /\ max_pages = MAX_PAGES
  /\ max_depth = MAX_DEPTH
  /\ runs = 1
  /\ log = <<>>
  /\ site = "fixture"
  /\ last = [op |-> "none", id |-> NULL, arg |-> NULL, text |-> ""]
  /\ \E query \in ChatQueries : call = ChatCall(query)
  /\ source = AnySource
  /\ sleeps = 0

SpecChat == InitChat /\ [][NextChat]_vars

\* the node the subject of the query resolves to by title match
Resolved == find_pages_by_title(pages, call.query.subject, TitleMatches)

\* C19: a relationship query whose subject matches a node is answered from
\* the store and the LLM is not called; the answer to "children of X" lists
\* the titles of all children of the node in title order; a relationship
\* query reaches the LLM only when no node matches
C19_StructuralPath ==
  (call.pc = "done" /\ classify_query(call.query) = "relationship") =>
    /\ Resolved # <<>> =>
         /\ ~call.llm
         /\ call.answer.kind \notin {"none", "content"}
         /\ call.answer.of = Resolved[1]
    /\ (Resolved # <<>> /\ call.query.form = "children of") =>
         call.answer.listed =
           Titles(pages, get_children(pages, Resolved[1]))
    /\ call.llm => Resolved = <<>>

\* C19 amended: as above, but "children of X" lists the titles of the first
\* 20 children in title order and gives the number of all of them, and that
\* only when the query does not hold the word "parent" (which selects the
\* parent answer first)
C19_StructuralPathShown ==
  (call.pc = "done" /\ classify_query(call.query) = "relationship") =>
    /\ Resolved # <<>> =>
         /\ ~call.llm
         /\ call.answer.kind \notin {"none", "content"}
         /\ call.answer.of = Resolved[1]
    /\ (Resolved # <<>> /\ call.query.form = "children of"
          /\ "parent" \notin Keywords(call.query)) =>
         LET children == get_children(pages, Resolved[1])
         IN /\ call.answer.kind = "children"
            /\ call.answer.count = Len(children)
            /\ Len(call.answer.listed) =
                 IF Len(children) <= 20 THEN Len(children) ELSE 20
            /\ \A i \in 1..Len(call.answer.listed) :
                 call.answer.listed[i] =
                   TitleOrUntitled(pages[children[i]].title)
    /\ (Resolved # <<>> /\ call.query.form = "children of"
          /\ "parent" \in Keywords(call.query)) =>
         call.answer.kind = "parent"
    /\ call.llm => Resolved = <<>>

\* "children of R" was answered on a store where R has 21 children: 20
\* titles are listed, the count is 21, the LLM was not called
C19_Witness ==
  /\ call.pc = "done"
  /\ call.query = [form |-> "children of", subject |-> "R"]
  /\ Len(get_children(pages, 1)) = 21
  /\ Len(call.answer.listed) = 20
  /\ call.answer.count = 21
  /\ ~call.llm

----------------------------------------------------------------------------
(* Properties of the crawl and the store, continued *)

\* C21: wherever a run is stopped, every non-null parent_id is the id of a
\* node, both ends of every edge are ids of nodes, and the parent of a node
\* was committed before the node (it has the smaller id)
C21_InterruptibleValidity ==
  /\ \A id \in Ids :
       pages[id].parent_id # NULL =>
         /\ pages[id].parent_id \in Ids
         /\ pages[id].parent_id < id
  /\ \A e \in edges : e.from_id \in Ids /\ e.to_id \in Ids

----------------------------------------------------------------------------
(* SpecRerun: crawl() against an unchanged source whose fetches are        *)
(* deterministic: an address always fails, or always renders the same page *)

Urls == {UrlR, UrlA, UrlB, UrlB2, UrlC}

\* the addresses that may be the ones that always fail
FailingUrls == {UrlA, UrlC}

\* page.url after goto(u), fixed for every u
Finals(s) == {f \in [Urls -> Urls] : \A u \in Urls : f[u] \in FinalUrls(s, u)}

\* the body extract_page finds on the page fetched for u, fixed for every u
ContentMaps ==
  { [u \in Urls |-> "text"],
    [u \in Urls |-> IF u = UrlA THEN "" ELSE "text"] }

Sources(s) ==
  [kind : {"fixed"}, final : Finals(s), content : ContentMaps,
   fails : SUBSET FailingUrls]

\* fetch_page raises, as it does for this address every time
FetchFailFixed ==
  /\ source.kind = "fixed"
  /\ pc = "fetch"
  /\ item.url \in source.fails
  /\ FetchFail

\* fetch_page and extract_page yield what they yield every time
FetchOkFixed ==
  /\ source.kind = "fixed"
  /\ pc = "fetch"
  /\ item.url \notin source.fails
  /\ FetchOk
  /\ extracted'.url = source.final[item.url]
  /\ extracted'.content = source.content[item.url]

NextRerun ==
  \/ StartRun
  \/ DequeueSkip
  \/ Dequeue
  \/ Timeout
  \/ Finish
  \/ FetchFailFixed
  \/ FetchOkFixed
  \/ RecordEdge
  \/ Cancel

InitRerun ==
  /\ InitBase
  /\ call = NoCall
  /\ source \in Sources(site)

SpecRerun == InitRerun /\ [][NextRerun]_vars

(* One uninterrupted run from an empty store, computed step by step: the   *)
(* loop of crawl() on a record of its locals and the two tables            *)

\* the locals of crawl() and the tables at the first `while` test
RunStart ==
  [pages |-> <<>>, edges |-> {}, queue |-> <<Item(StartUrl, 0, NULL, "")>>,
   visited_guids |-> {}, visited_urls |-> {}, total |-> 0]

RECURSIVE EnqueuedIn(_, _, _, _, _)
\* the items the for loop over extracted.links appends, given the run's sets
EnqueuedIn(r, links, depth, parent, i) ==
  IF i > Len(links) THEN <<>>
  ELSE LET child_url == links[i][1]
           rest == EnqueuedIn(r, links, depth, parent, i + 1)
       IN IF /\ DedupKey(child_url) \notin r.visited_guids
             /\ child_url \notin r.visited_urls
          THEN <<Item(child_url, depth + 1, parent, links[i][2])>> \o rest
          ELSE rest

\* one iteration of the loop on r: pop, dedup, fetch, upsert, edge, enqueue
Iteration(r, s, src, md) ==
  LET it == Head(r.queue)
      popped == [r EXCEPT !.queue = Tail(r.queue)]
      marked == [popped EXCEPT
                   !.visited_guids = @ \cup {DedupKey(it.url)},
                   !.visited_urls = @ \cup {it.url}]
  IN IF DedupKey(it.url) \in r.visited_guids \/ it.url \in r.visited_urls
     THEN popped
     ELSE IF it.url \in src.fails
     THEN [marked EXCEPT
             !.pages = UpsertPages(@, NewRow(it.url, guid_from_url(it.url),
                                     None, "", it.depth, it.parent_id,
                                     "error"))]
     ELSE LET ex == ExtractedPage(src.final[it.url], src.content[it.url],
                                  Links(s, src.final[it.url]))
              row == NewRow(ex.url, ex.guid, ex.title, ex.content, it.depth,
                            it.parent_id, StatusOf(ex.content))
              id == UpsertId(r.pages, ex.url)
          IN [marked EXCEPT
                !.pages = UpsertPages(@, row),
                !.total = @ + 1,
                !.edges = IF it.parent_id # NULL /\ it.link_text # ""
                          THEN InsertEdgeRows(@, it.parent_id, id, it.link_text)
                          ELSE @,
                !.queue = IF it.depth < md
                          THEN @ \o EnqueuedIn(marked, ex.links, it.depth, id, 1)
                          ELSE @]

RECURSIVE RunFrom(_, _, _, _, _)
\* while queue and total < MAX_PAGES: ... (no timeout, no cancellation)
RunFrom(r, s, src, mp, md) ==
  IF r.queue = <<>> \/ r.total >= mp THEN r
  ELSE RunFrom(Iteration(r, s, src, md), s, src, mp, md)

\* the tables a single uninterrupted run from an empty store leaves
SingleRun == RunFrom(RunStart, site, source, max_pages, max_depth)

\* a node as seen by its canonical address: the parent by its address too
NodeOf(pgs, id) ==
  [url |-> pgs[id].url,
   parent |-> IF pgs[id].parent_id = NULL THEN <<>>
              ELSE <<pgs[pgs[id].parent_id].url>>,
   depth |-> pgs[id].depth, status |-> pgs[id].status,
   title |-> pgs[id].title, content |-> pgs[id].content]

Nodes(pgs) == {NodeOf(pgs, id) : id \in 1..Len(pgs)}

\* an edge as seen by the addresses of its ends
LinkEdges(pgs, es) ==
  {[from |-> pgs[e.from_id].url, to |-> pgs[e.to_id].url,
    link_text |-> e.link_text] : e \in es}

\* the run ended by its while condition, not by the timeout or a cancellation
Completed == pc = "done" /\ runs >= 1 /\ ~Cancelled(log) /\ ~TimedOut(log)

\* C22: on an unchanged deterministic source, a run that completes on the
\* store left by an earlier run (complete or interrupted) leaves the nodes,
\* by address, and the edges that one uninterrupted run from an empty
\* store leaves; so does the first run when it completes
C22_RerunIdempotence ==
  Completed =>
    /\ Len(pages) = Len(SingleRun.pages)
    /\ Nodes(pages) = Nodes(SingleRun.pages)
    /\ LinkEdges(pages, edges) = LinkEdges(SingleRun.pages, SingleRun.edges)

\* a second run has completed on a store that the first run, cancelled
\* between a node upsert and its edge insert, left with fewer nodes and edges
C22_Witness ==
  /\ Completed
  /\ runs = 2
  /\ Len(pages) >= 3
  /\ Cardinality(edges) >= 2

\* C23: the step that follows the commit of a successfully extracted item
\* leaves an edge from the item's discovering parent to the committed node;
\* the edge carries the item's anchor text unless the pair had an edge
\* already, which is kept; for the root item the edges are left as they are
C23_ParentEdgeOnCommit ==
  [][(pc = "edge" /\ pc' = "loop") =>
       IF item.parent_id # NULL
       THEN /\ \E e \in edges' :
                 /\ e.from_id = item.parent_id
                 /\ e.to_id = page_id
                 /\ \/ e \in edges
                    \/ /\ e.link_text = item.link_text
                       /\ ~\E o \in edges : /\ o.from_id = item.parent_id
                                            /\ o.to_id = page_id
            /\ \A e \in edges' \ edges :
                 e.from_id = item.parent_id /\ e.to_id = page_id
       ELSE edges' = edges]_vars

\* a first run has committed a discovered page and recorded the edge from
\* its discovering parent with the anchor text of the item
C23_Witness ==
  /\ runs = 1
  /\ pc = "loop"
  /\ item.parent_id # NULL
  /\ [from_id |-> item.parent_id, to_id |-> page_id,
      link_text |-> item.link_text] \in edges
  /\ pages[page_id].url = extracted.url

\* the rows of a path are the ancestor chain, root first and id last
RootFirst(pgs, id, p) ==
  /\ p # <<>>
  /\ pgs[p[1]].parent_id = NULL
  /\ \A i \in 1..(Len(p) - 1) : pgs[p[i + 1]].parent_id = p[i]
  /\ p[Len(p)] = id

\* C24: in every store state a crawl reaches, get_path_to_root(id) returns,
\* for every node id, the ancestor chain of id: the first row has no parent,
\* every row is the parent of the next and the last row is id
C24_PathRootFirst ==
  \A id \in Ids :
    /\ PathOutcome(pages, id) = "rows"
    /\ RootFirst(pages, id, get_path_to_root(pages, id))

(* Properties of fts_search, continued *)

\* the tokens of the queries a call has sent to the backend: the first
\* attempt is the disjunctive query, whose even positions are the OR joiner
SentTokens(c) ==
  UNION {{c.attempts[i].q[k] :
            k \in {j \in DOMAIN c.attempts[i].q : i = 1 => j % 2 = 1}} :
         i \in {j \in DOMAIN c.attempts : c.attempts[j].kind = "fts"}}

\* t is a token of the query, in lower case, that is no stop word and is
\* longer than two characters
KeptToken(query, t) ==
  /\ \E k \in DOMAIN query : Lower(query[k]) = t
  /\ t \notin STOP
  /\ Len(t) > 2

\* C25 as stated: every token of every query sent to the backend is a token
\* of the query that is no stop word and longer than two characters, for
\* every query
C25_TokenFiltering ==
  call.op = "fts_search" =>
    \A t \in SentTokens(call) : KeptToken(call.query, t)

\* C25 as the code has it: when the query has a token that is no stop word
\* and longer than two characters, the tokens sent are exactly those; when
\* it has none, the tokens sent are all the tokens of the query that are not
\* punctuation, as written
C25_TokenFilteringUnlessNone ==
  (call.op = "fts_search" /\ call.attempts # <<>>
     /\ call.attempts[1].kind = "fts") =>
    IF \E k \in DOMAIN call.query : KeptToken(call.query, Lower(call.query[k]))
    THEN SentTokens(call) =
           {Lower(call.query[k]) : k \in
              {j \in DOMAIN call.query :
                 KeptToken(call.query, Lower(call.query[j]))}}
    ELSE SentTokens(call) =
           {call.query[k] : k \in
              {j \in DOMAIN call.query : call.query[j] \notin Punctuation}}

\* a query with a stop word and two other words has been sent as the
\* disjunctive and then as the conjunctive query
C25_Witness ==
  /\ call.op = "fts_search"
  /\ \E k \in DOMAIN call.query : Lower(call.query[k]) \in STOP
  /\ Len(call.attempts) >= 2
  /\ call.attempts[1].kind = "fts" /\ call.attempts[2].kind = "fts"
  /\ Len(call.attempts[1].q) = 3
  /\ Len(call.attempts[2].q) = 2

(* Properties of the crawl order *)

\* the page at page_url has a link to the document of doc_url
LinksTo(s, page_url, doc_url) ==
  \E k \in DOMAIN Links(s, page_url) :
    DedupKey(Links(s, page_url)[k][1]) = DedupKey(doc_url)

\* the positions in the log of the pages of this run, fetched and
\* extracted, that link to the document of doc_url
Linkers(l, doc_url) ==
  {i \in DOMAIN l : l[i].ev = "ok" /\ LinksTo(site, l[i].final, doc_url)}

\* the depths of the frontier never decrease from its head to its tail
FrontierSorted ==
  \A i, j \in DOMAIN queue : i <= j => queue[i].depth <= queue[j].depth

\* C26: the frontier is dequeued from its head and holds its items by
\* depth, so within a run no dequeued item is less deep than the one before
\* it; and a node created in a run for a discovered document has as parent
\* the first page processed in that run that links to the document, and as
\* depth the depth of that page plus one
C26_BfsFirstDiscoverer ==
  /\ [](Running => FrontierSorted)
  /\ [][(pc = "loop" /\ queue' # queue) =>
          /\ queue' = Tail(queue)
          /\ pc' = "fetch" => item' = Head(queue)
          /\ (pc' = "fetch" /\ visited_urls # {}) =>
               item'.depth >= item.depth]_vars
  /\ [][(pc = "fetch" /\ Len(pages') = Len(pages) + 1
           /\ item.parent_id # NULL) =>
          /\ Linkers(log, item.url) # {}
          /\ LET first == CHOOSE i \in Linkers(log, item.url) :
                            \A j \in Linkers(log, item.url) : i <= j
                 p == IdOfUrl(pages, log[first].final)
                 new == pages'[Len(pages')]
             IN /\ new.parent_id = p
                /\ new.depth = pages[p].depth + 1]_vars

\* two pages that link to one document have been processed, and the node
\* created for the document has the first of them as its parent
C26_Witness ==
  /\ runs = 1
  /\ pc = "edge"
  /\ Cardinality(Linkers(log, item.url)) = 2
  /\ page_id = Len(pages)
  /\ pages[page_id].parent_id = IdOfUrl(pages, UrlA)
  /\ pages[page_id].depth = 2

\* the status and the body of a row agree
StatusBody(row) ==
  /\ row.status \in {"ok", "empty", "error"}
  /\ row.status = "ok" <=> row.content # ""

\* C27: in every store state of a crawl a node has status ok exactly when
\* its body is not empty, and status empty or error otherwise; a successful
\* fetch leaves its node ok or empty, whatever it was, and a failed fetch
\* leaves its node in error with an empty body, whatever it was
C27_StatusBody ==
  /\ [](\A id \in Ids : StatusBody(pages[id]))
  /\ [][(pc = "fetch" /\ pc' = "edge") =>
          /\ pages'[page_id'].status \in {"ok", "empty"}
          /\ pages'[page_id'].content = extracted'.content
          /\ pages'[page_id'].url = extracted'.url]_vars
  /\ [][(pc = "fetch" /\ pc' = "loop") =>
          LET id == IdOfUrl(pages', item.url)
          IN /\ id # NULL
             /\ pages'[id].status = "error"
             /\ pages'[id].content = ""]_vars

\* in a second run the fetch of a page has failed whose earlier fetch had
\* succeeded (a node discovered through its links has it as parent): the
\* node is in error, with an empty body
C27_Witness ==
  /\ runs = 2
  /\ pc = "loop"
  /\ log # <<>>
  /\ log[Len(log)].ev = "fail"
  /\ LET id == IdOfUrl(pages, log[Len(log)].url)
     IN /\ id # NULL
        /\ pages[id].status = "error"
        /\ pages[id].content = ""
        /\ \E c \in Ids : c # id /\ pages[c].parent_id = id

\* the number of fetches of the run that have returned or raised
Fetched(l) == Cardinality({i \in DOMAIN l : l[i].ev \in {"ok", "fail"}})

\* C28: when a fetch of a run starts, every earlier fetch of the run, one
\* that succeeded or one that failed, has been followed by one delay, and
\* there has been no other delay; the step that skips a visited item starts
\* no fetch, writes nothing and makes no delay
C28_Politeness ==
  /\ [](pc \in {"loop", "fetch"} => sleeps = Fetched(log))
  /\ [](pc = "edge" => sleeps = Fetched(log) - 1)
  /\ [][(pc = "loop" /\ pc' = "loop" /\ queue' # queue) =>
          /\ sleeps' = sleeps
          /\ log' = log
          /\ pages' = pages /\ edges' = edges]_vars

\* a third fetch of a run starts after a fetch that succeeded and a fetch
\* that failed, each followed by its delay
C28_Witness ==
  /\ pc = "fetch"
  /\ sleeps = 2
  /\ \E i \in DOMAIN log : log[i].ev = "ok"
  /\ \E i \in DOMAIN log : log[i].ev = "fail"

(* Properties of _best_excerpt, continued *)

\* the anchor of the call is found in a body longer than the window
AnchorFound ==
  /\ call.op = "best_excerpt" /\ call.pc = "return"
  /\ call.full > Window
  /\ AnchorPos(call.snippet) >= 0

\* the number of characters of the excerpt that precede the anchor
AnchorOffset == AnchorPos(call.snippet) - call.excerpt.start

\* C29 as stated: with a body longer than the window and the anchor found,
\* at least window * 3 \div 4 characters of the excerpt precede the anchor,
\* wherever the anchor is
C29_AnchorFinalQuarter ==
  AnchorFound => AnchorOffset >= (Window * 3) \div 4

\* C29 as the code has it: the anchor is inside the excerpt, preceded by
\* window * 3 \div 4 characters when that many precede it in the body, and
\* by all the characters that precede it in the body otherwise
C29_AnchorOffsetClamped ==
  AnchorFound =>
    /\ AnchorOffset = Min(AnchorPos(call.snippet), (Window * 3) \div 4)
    /\ AnchorPos(call.snippet) < call.excerpt.stop

\* an anchor found at the very start of a long body: the excerpt starts
\* with it
C29_Witness ==
  /\ AnchorFound
  /\ AnchorPos(call.snippet) < (Window * 3) \div 4
  /\ call.excerpt.start = 0
  /\ AnchorOffset = AnchorPos(call.snippet)

\* the first run on the store, and so far every page it fetched had the
\* dequeued address as its final address
FirstRunNoRedirect ==
  /\ runs = 1
  /\ \A i \in DOMAIN log : log[i].final = log[i].url

\* C30: in a first run without redirects every edge goes from the parent of
\* a node to that node, so there are fewer edges than nodes; a step adds at
\* most one edge, to the node created in the same iteration, and the step
\* that skips a visited document adds none
C30_TreeEdgesOnly ==
  /\ [](FirstRunNoRedirect =>
          /\ \A e \in edges : pages[e.to_id].parent_id = e.from_id
          /\ edges # {} => Cardinality(edges) <= Len(pages) - 1)
  /\ [][(FirstRunNoRedirect /\ edges' # edges) =>
          /\ pc = "edge"
          /\ page_id = Len(pages)
          /\ \E e \in edges' : /\ edges' = edges \cup {e}
                               /\ e.to_id = page_id]_vars

\* the fixture has been crawled in one run: page C, which links to the
\* visited document B, has been processed, and B has the one edge from A
C30_Witness ==
  /\ FirstRunNoRedirect
  /\ site = "fixture"
  /\ pc = "done"
  /\ \E i \in DOMAIN log : log[i].ev = "ok" /\ log[i].url = UrlC
  /\ \E i \in DOMAIN log : log[i].ev = "ok" /\ log[i].url = UrlB
  /\ Cardinality(edges) = 3
  /\ Len(pages) = 4
  /\ \A e \in edges : e.to_id = IdOfUrl(pages, UrlB) =>
                        e.from_id = IdOfUrl(pages, UrlA)

(* Properties of the store, continued *)

\* C31: upsert_page for an address that has a node returns the id of that
\* node, which keeps its address; the number of nodes stays, every other
\* node and every edge stay as they are; insert_edge changes no node and no
\* entry of the index
C31_UpsertFrame ==
  /\ [][(last'.op = "upsert_page" /\ last'.id \in Ids) =>
          /\ Len(pages') = Len(pages)
          /\ pages'[last'.id].url = pages[last'.id].url
          /\ \A id \in Ids \ {last'.id} : pages'[id] = pages[id]
          /\ edges' = edges]_vars
  /\ [][last'.op = "insert_edge" =>
          pages' = pages /\ pages_fts' = pages_fts]_vars

\* the last call upserted node 1 while node 2 and an edge between them
\* existed: node 1 now holds the error row of the call, node 2 its ok row
C31_Witness ==
  /\ last.op = "upsert_page"
  /\ last.id = 1
  /\ Len(pages) = 2
  /\ edges # {}
  /\ pages[1].status = "error"
  /\ pages[2].status = "ok"

(* Properties of link discovery *)

\* the anchors of all the pages of the site
SiteAnchors(s) ==
  UNION {{Anchors(s, u)[k] : k \in DOMAIN Anchors(s, u)} : u \in Urls}

\* the addresses without an identity key that anchors of the site point at
Guidless(s) ==
  {a.url : a \in {b \in SiteAnchors(s) : guid_from_url(b.url) = None}}

\* the addresses the run holds or has handled: frontier, item in flight,
\* visited set, log and store
Handled ==
  {queue[i].url : i \in DOMAIN queue} \cup visited_urls
    \cup {log[i].url : i \in DOMAIN log} \cup {pages[id].url : id \in Ids}
    \cup (IF pc \in {"fetch", "edge"} THEN {item.url} ELSE {})

\* C32: every item of the frontier is the start item or has an address
\* with an identity key, and an address without one that an anchor of a
\* fetched page points at is in no frontier item, was never fetched and is
\* the address of no node
C32_IdentityBearingLinks ==
  /\ \A i \in DOMAIN queue :
       \/ queue[i] = Item(StartUrl, 0, NULL, "")
       \/ guid_from_url(queue[i].url) # None
  /\ Guidless(site) \cap Handled = {}
  /\ pc = "edge" =>
       \A k \in DOMAIN extracted.links :
         guid_from_url(extracted.links[k][1]) # None

\* a page with an anchor to an address without identity key has been
\* fetched and extracted, and its other links are in the frontier
C32_Witness ==
  /\ pc = "loop"
  /\ log # <<>>
  /\ log[Len(log)].ev = "ok"
  /\ \E k \in DOMAIN Anchors(site, log[Len(log)].final) :
       /\ Anchors(site, log[Len(log)].final)[k].scope = "in"
       /\ Anchors(site, log[Len(log)].final)[k].url \in Guidless(site)
  /\ queue # <<>>
  /\ queue[Len(queue)].parent_id = page_id

====
